---- MODULE Spec2Model ----
(***************************************************************************)
(* AirspaceConverter: the conversion session (collections, pending file    *)
(* lists, output path, completion flag), the load / convert / unload       *)
(* operations, the geographic filter and the openAIP directory pipeline of *)
(* src/src/AirspaceConverter.cpp.                                          *)
(*                                                                         *)
(* A path or any other std::string is a sequence of one-character strings. *)
(* A Waypoint* is an index into heap; the multimaps are sequences kept in  *)
(* key order, equal keys in insertion order.                               *)
(***************************************************************************)
EXTENDS Integers, Sequences, FiniteSets, TLC

\* ------------------------------------------------------------------ bounds
\* Slots of the waypoint heap (objects alive, or released by the running operation).
MaxObj == 3
\* Largest airspace collection a reader is given room for.
MaxAsp == 2
\* Longest pending file list (of airspace files, of waypoint files) where the
\* loads are what is explored.
MaxPending == 2
\* Longest pending file list elsewhere.
MaxStale == 1

\* ----------------------------------------------------------------- strings
UpperChars == <<"A","B","C","D","E","F","G","H","I","J","K","L","M",
                "N","O","P","Q","R","S","T","U","V","W","X","Y","Z">>
LowerChars == <<"a","b","c","d","e","f","g","h","i","j","k","l","m",
                "n","o","p","q","r","s","t","u","v","w","x","y","z">>

\* std::tolower, as a table over the upper-case letters
LowerOf == [c \in {UpperChars[i] : i \in 1..26} |->
              LowerChars[CHOOSE i \in 1..26 : UpperChars[i] = c]]

\* std::tolower on one character
ToLower(c) == IF c \in DOMAIN LowerOf THEN LowerOf[c] ELSE c

\* boost::iequals
IEquals(a, b) ==
  /\ Len(a) = Len(b)
  /\ \A i \in 1..Len(a) : ToLower(a[i]) = ToLower(b[i])

\* index of the last occurrence of c in s at or before i, 0 when there is none
RECURSIVE LastIndexFrom(_, _, _)
LastIndexFrom(s, c, i) ==
  IF i = 0 THEN 0 ELSE IF s[i] = c THEN i ELSE LastIndexFrom(s, c, i - 1)

LastIndexOf(s, c) == LastIndexFrom(s, c, Len(s))

\* boost::filesystem::path::filename
Filename(p) == SubSeq(p, LastIndexOf(p, "/") + 1, Len(p))

\* boost::filesystem::path::extension: from the last dot of the filename
Extension(p) ==
  LET f == Filename(p)
      k == LastIndexOf(f, ".")
  IN  IF f = <<".">> \/ f = <<".", ".">> \/ k = 0 THEN <<>> ELSE SubSeq(f, k, Len(f))

\* boost::filesystem::path::stem
Stem(p) ==
  LET f == Filename(p)
  IN  SubSeq(f, 1, Len(f) - Len(Extension(p)))

\* boost::filesystem::path::replace_extension (newExt starts with a dot)
ReplaceExtension(p, newExt) == SubSeq(p, 1, Len(p) - Len(Extension(p))) \o newExt

\* boost::filesystem::path::operator/
PathJoin(dir, name) == dir \o <<"/">> \o name

\* boost::ends_with (case sensitive)
EndsWith(s, t) == Len(s) >= Len(t) /\ SubSeq(s, Len(s) - Len(t) + 1, Len(s)) = t

Ext_kmz == <<".","k","m","z">>
Ext_txt == <<".","t","x","t">>
Ext_cup == <<".","c","u","p">>
Ext_mp  == <<".","m","p">>
Ext_img == <<".","i","m","g">>
Ext_aip == <<".","a","i","p">>
Ext_kml == <<".","k","m","l">>

\* --------------------------------------------------------------- OutputType
OutputTypes == {"KMZ_Format", "OpenAir_Format", "SeeYou_Format", "Polish_Format",
                "Garmin_Format", "Unknown_Format"}

\* faulty variant: DetermineType comparing the extension case-sensitively
DetermineType_caseSensitive(filename) ==
  IF filename = <<>> THEN "KMZ_Format"
  ELSE LET outputExt == Extension(filename)
       IN  IF outputExt = Ext_kmz THEN "KMZ_Format"
           ELSE IF outputExt = Ext_txt THEN "OpenAir_Format"
           ELSE IF outputExt = Ext_cup THEN "SeeYou_Format"
           ELSE IF outputExt = Ext_mp  THEN "Polish_Format"
           ELSE IF outputExt = Ext_img THEN "Garmin_Format"
           ELSE "Unknown_Format"

DetermineType(filename) ==
  IF filename = <<>> THEN "KMZ_Format"
  ELSE LET outputExt == Extension(filename)
       IN  IF IEquals(outputExt, Ext_kmz) THEN "KMZ_Format"
           ELSE IF IEquals(outputExt, Ext_txt) THEN "OpenAir_Format"
           ELSE IF IEquals(outputExt, Ext_cup) THEN "SeeYou_Format"
           ELSE IF IEquals(outputExt, Ext_mp)  THEN "Polish_Format"
           ELSE IF IEquals(outputExt, Ext_img) THEN "Garmin_Format"
           ELSE "Unknown_Format"

\* canonical extension of an output type (PutTypeExtension's switch)
TypeExtension(type) ==
  CASE type = "KMZ_Format"     -> Ext_kmz
    [] type = "OpenAir_Format" -> Ext_txt
    [] type = "SeeYou_Format"  -> Ext_cup
    [] type = "Polish_Format"  -> Ext_mp
    [] type = "Garmin_Format"  -> Ext_img
    [] OTHER                   -> <<>>

\* faulty variant: PutTypeExtension that never assigns the rewritten path to filename
PutTypeExtension_keepsFilename(type, filename) ==
  IF filename = <<>> THEN [ok |-> FALSE, filename |-> filename]
  ELSE IF type \in OutputTypes \ {"Unknown_Format"}
       THEN [ok |-> TRUE, filename |-> filename]
       ELSE [ok |-> FALSE, filename |-> filename]

\* PutTypeExtension: [ok, filename]
PutTypeExtension(type, filename) ==
  IF filename = <<>> THEN [ok |-> FALSE, filename |-> filename]
  ELSE IF type \in OutputTypes \ {"Unknown_Format"}
       THEN [ok |-> TRUE, filename |-> ReplaceExtension(filename, TypeExtension(type))]
       ELSE [ok |-> FALSE, filename |-> filename]

\* ------------------------------------------------------------ file system
\* The files the session is given.  The openAIP directory is "d".
DirPath     == <<"d">>
NotADirPath == <<"n">>
File_a_txt  == <<"a",".","t","x","t">>
File_w_cup  == <<"w",".","C","U","P">>
File_x_dat  == <<"x",".","d","a","t">>
File_k_kml  == <<"k",".","K","M","L">>
File_v_cup  == <<"v",".","c","u","p">>

Str_asp_aip == <<"_","a","s","p",".","a","i","p">>
Str_wpt_aip == <<"_","w","p","t",".","a","i","p">>
Str_nav_aip == <<"_","n","a","v",".","a","i","p">>
Str_kmz     == <<".","k","m","z">>

\* What a reader finds in a file: the entities, in file order, each with its
\* multimap key and its position.
FileEntities(f) ==
  IF f = File_a_txt
  THEN << [key |-> 2, lat |-> 10, lon |-> 10], [key |-> 1, lat |-> 50, lon |-> 100] >>
  ELSE IF f = File_w_cup
  THEN << [key |-> 2, lat |-> 50, lon |-> 100], [key |-> 1, lat |-> 60, lon |-> 100] >>
  ELSE IF EndsWith(Stem(f), <<"n","a","v">>)
  THEN << [key |-> 1, lat |-> 50, lon |-> 100] >>
  ELSE << [key |-> 1, lat |-> 10, lon |-> 10] >>

\* ----------------------------------------------------------- collections
\* std::multimap::insert: after the last entry whose key is not greater
MMInsert(mm, e) ==
  LET k == Cardinality({i \in 1..Len(mm) : mm[i].key <= e.key})
  IN  SubSeq(mm, 1, k) \o <<e>> \o SubSeq(mm, k + 1, Len(mm))

\* std::multimap::erase(iterator)
MMErase(mm, it) == SubSeq(mm, 1, it - 1) \o SubSeq(mm, it + 1, Len(mm))

\* A slot of the heap that holds no Waypoint.
FreeSlot == [alloc |-> FALSE, lat |-> 0, lon |-> 0, src |-> <<>>, n |-> 0]

EmptyHeap == [i \in 1..MaxObj |-> FreeSlot]

FreeSlots(heap) == {i \in DOMAIN heap : ~heap[i].alloc}

\* new Waypoint(...): the object goes to a free slot
NewWaypoint(heap, ptr, e, src, n) ==
  [heap EXCEPT ![ptr] = [alloc |-> TRUE, lat |-> e.lat, lon |-> e.lon, src |-> src, n |-> n]]

\* delete w: the slot is free again; deleting what is not allocated is a fault
DeleteWaypoint(w, ptr) ==
  IF w.heap[ptr].alloc
  THEN [w EXCEPT !.heap[ptr] = FreeSlot]
  ELSE [w EXCEPT !.heapFault = TRUE]

\* ------------------------------------------------------------------ readers
\* Reader collaborators (OpenAir::Read, OpenAIP::ReadAirspaces, KML::ReadKMZ,
\* KML::ReadKML): the first n entities of the file are appended to the airspace
\* collection, as far as there is room.
RECURSIVE ReadAirspaceFile(_, _, _, _)
ReadAirspaceFile(w, f, n, k) ==
  IF k > n \/ k > Len(FileEntities(f)) \/ Len(w.airspaces) >= MaxAsp THEN w
  ELSE LET e == FileEntities(f)[k]
           a == [key |-> e.key, lat |-> e.lat, lon |-> e.lon, src |-> f, n |-> k]
       IN  ReadAirspaceFile([w EXCEPT !.airspaces = MMInsert(@, a)], f, n, k + 1)

\* Reader collaborators (SeeYou::Read, OpenAIP::ReadWaypoints): each of the first n
\* entities of the file becomes a new Waypoint, owned by the waypoint collection.
RECURSIVE ReadWaypointFile(_, _, _, _)
ReadWaypointFile(w, f, n, k) ==
  IF k > n \/ k > Len(FileEntities(f)) \/ FreeSlots(w.heap) = {} THEN w
  ELSE LET e   == FileEntities(f)[k]
           ptr == CHOOSE i \in FreeSlots(w.heap) : \A j \in FreeSlots(w.heap) : i <= j
       IN  ReadWaypointFile(
             [w EXCEPT !.heap = NewWaypoint(@, ptr, e, f, k),
                       !.waypoints = MMInsert(@, [key |-> e.key, ptr |-> ptr])],
             f, n, k + 1)

\* -------------------------------------------------- Conversion Orchestrator
AddAirspaceFile(w, inputFile) == [w EXCEPT !.airspaceFiles = Append(@, inputFile)]

AddWaypointFile(w, inputFile) == [w EXCEPT !.waypointFiles = Append(@, inputFile)]

GetOutputType(w) == DetermineType(w.outputFile)

\* faulty variant: the switch with the break of case Polish_Format missing, which
\* then runs into case Garmin_Format
SuggestedExtension_polishFallsThrough(suggestedType) ==
  CASE suggestedType = "OpenAir_Format" -> Ext_txt
    [] suggestedType = "Polish_Format"  -> Ext_img
    [] suggestedType = "Garmin_Format"  -> Ext_img
    [] OTHER                            -> Ext_kmz

\* the switch of LoadAirspaces on suggestedTypeForOutputFilename: any type without
\* a case of its own goes through default (assert(false), no break) into the KMZ case
SuggestedExtension(suggestedType) ==
  CASE suggestedType = "OpenAir_Format" -> Ext_txt
    [] suggestedType = "Polish_Format"  -> Ext_mp
    [] suggestedType = "Garmin_Format"  -> Ext_img
    [] OTHER                            -> Ext_kmz

\* the record of what a Load does with a pending file: its reader is called
\* ("Read"), or LogWarning is; asps is airspaces.size() at that moment
Note(w, op, file) ==
  [w EXCEPT !.reads = Append(@, [op |-> op, file |-> file, asps |-> Len(w.airspaces)])]

\* the loop of LoadAirspaces over airspaceFiles, from file i on; outs[i] is how many
\* entities the reader of file i appends
RECURSIVE LoadAirspacesLoop(_, _, _, _, _)
LoadAirspacesLoop(w, i, initialAirspacesNumber, suggestedType, outs) ==
  IF i > Len(w.airspaceFiles) THEN w
  ELSE LET inputFile == w.airspaceFiles[i]
           ext       == Extension(inputFile)
       IN  IF IEquals(ext, Ext_txt) \/ IEquals(ext, Ext_aip)
              \/ IEquals(ext, Ext_kmz) \/ IEquals(ext, Ext_kml)
           THEN LET w1 == ReadAirspaceFile(Note(w, "Read", inputFile), inputFile, outs[i], 1)
                    w2 == IF Len(w1.airspaces) > initialAirspacesNumber /\ w1.outputFile = <<>>
                          THEN [w1 EXCEPT !.outputFile =
                                  ReplaceExtension(inputFile, SuggestedExtension(suggestedType))]
                          ELSE w1
                IN  LoadAirspacesLoop(w2, i + 1, initialAirspacesNumber, suggestedType, outs)
           ELSE LoadAirspacesLoop(Note(w, "LogWarning", inputFile), i + 1,
                                  initialAirspacesNumber, suggestedType, outs)

LoadAirspaces(w, suggestedType, outs) ==
  IF w.airspaceFiles = <<>> THEN w
  ELSE LET w1 == [w EXCEPT !.conversionDone = FALSE]
           w2 == LoadAirspacesLoop(w1, 1, Len(w1.airspaces), suggestedType, outs)
       IN  [w2 EXCEPT !.airspaceFiles = <<>>]

UnloadAirspaces(w) ==
  [w EXCEPT !.conversionDone = FALSE, !.airspaces = <<>>, !.outputFile = <<>>]

\* faulty variant: the loop of LoadWaypoints with break in place of continue at a
\* file of unknown extension
RECURSIVE LoadWaypointsLoop_breaksOnUnknown(_, _, _)
LoadWaypointsLoop_breaksOnUnknown(w, i, outs) ==
  IF i > Len(w.waypointFiles) THEN w
  ELSE LET inputFile == w.waypointFiles[i]
           ext       == Extension(inputFile)
       IN  IF IEquals(ext, Ext_cup) \/ IEquals(ext, Ext_aip)
           THEN LET readOk == outs[i].ok
                    w1 == ReadWaypointFile(Note(w, "Read", inputFile), inputFile, outs[i].n, 1)
                    w2 == IF readOk /\ w1.outputFile = <<>>
                          THEN [w1 EXCEPT !.outputFile = ReplaceExtension(inputFile, Ext_kmz)]
                          ELSE w1
                IN  LoadWaypointsLoop_breaksOnUnknown(w2, i + 1, outs)
           ELSE Note(w, "LogWarning", inputFile)

\* the loop of LoadWaypoints over waypointFiles, from file i on; outs[i] is what the
\* reader of file i returns (ok) and how many entities it appends (n)
RECURSIVE LoadWaypointsLoop(_, _, _)
LoadWaypointsLoop(w, i, outs) ==
  IF i > Len(w.waypointFiles) THEN w
  ELSE LET inputFile == w.waypointFiles[i]
           ext       == Extension(inputFile)
       IN  IF IEquals(ext, Ext_cup) \/ IEquals(ext, Ext_aip)
           THEN LET readOk == outs[i].ok
                    w1 == ReadWaypointFile(Note(w, "Read", inputFile), inputFile, outs[i].n, 1)
                    w2 == IF readOk /\ w1.outputFile = <<>>
                          THEN [w1 EXCEPT !.outputFile = ReplaceExtension(inputFile, Ext_kmz)]
                          ELSE w1
                IN  LoadWaypointsLoop(w2, i + 1, outs)
           ELSE LoadWaypointsLoop(Note(w, "LogWarning", inputFile), i + 1, outs)

\* faulty variant: LoadWaypoints that forgets conversionDone = false
LoadWaypoints_keepsFlag(w, outs) ==
  IF w.waypointFiles = <<>> THEN w
  ELSE [LoadWaypointsLoop(w, 1, outs) EXCEPT !.waypointFiles = <<>>]

LoadWaypoints(w, outs) ==
  IF w.waypointFiles = <<>> THEN w
  ELSE LET w1 == [w EXCEPT !.conversionDone = FALSE]
           w2 == LoadWaypointsLoop(w1, 1, outs)
       IN  [w2 EXCEPT !.waypointFiles = <<>>]

\* the loop of UnloadWaypoints: delete wpt.second for every entry
RECURSIVE DeleteAll(_, _)
DeleteAll(w, i) ==
  IF i > Len(w.waypoints) THEN w
  ELSE DeleteAll(DeleteWaypoint(w, w.waypoints[i].ptr), i + 1)

\* faulty variant: UnloadWaypoints that clears the output path whatever the airspace
\* collection holds
UnloadWaypoints_clearsOutput(w) ==
  LET w1 == [w EXCEPT !.conversionDone = FALSE]
      w2 == DeleteAll(w1, 1)
  IN  [w2 EXCEPT !.waypoints = <<>>, !.outputFile = <<>>]

UnloadWaypoints(w) ==
  LET w1 == [w EXCEPT !.conversionDone = FALSE]
      w2 == DeleteAll(w1, 1)
      w3 == [w2 EXCEPT !.waypoints = <<>>]
  IN  IF w3.airspaces = <<>> THEN [w3 EXCEPT !.outputFile = <<>>] ELSE w3

\* what the collections hold, by source file and position in the file
AirspaceIds(w) == [i \in 1..Len(w.airspaces) |->
                     [src |-> w.airspaces[i].src, n |-> w.airspaces[i].n]]

WaypointIds(w) == [i \in 1..Len(w.waypoints) |->
                     [src |-> w.heap[w.waypoints[i].ptr].src, n |-> w.heap[w.waypoints[i].ptr].n]]

\* the record of a call made by the pipeline
Log(w, op, path) ==
  [w EXCEPT !.trace = Append(@, [op |-> op, path |-> path,
                                 asps |-> AirspaceIds(w), wpts |-> WaypointIds(w)])]

\* The cGPSmapper hook.  cGPSmapper is a static std::function that starts as
\* Default_cGPSmapper and that anyone may assign between two calls of Convert, so
\* the hook in effect is an input of the call: tool.hook names it; tool.ok is what
\* system(cmd) == EXIT_SUCCESS gives (default hook) or what the hook returns
\* (replacement); tool.removes tells whether std::remove(polishFile) succeeds
\* (default hook) or whether the hook removes polishFile (replacement).
Tools == [hook : {"Default_cGPSmapper", "replacement"}, ok : BOOLEAN, removes : BOOLEAN]

\* the hook of the Dir pipeline's calls of Convert, which never reach it
NoTool == [hook |-> "Default_cGPSmapper", ok |-> TRUE, removes |-> TRUE]

\* the default hook, with a Polish file that std::remove can remove
DefaultTools == { tool \in Tools : tool.hook = "Default_cGPSmapper" /\ tool.removes }

\* faulty variant: the default hook that removes the Polish file whatever the tool
\* returned
Default_cGPSmapper_alwaysRemoves(w, polishFile, exitOk, removeOk) ==
  LET w1 == IF removeOk THEN [w EXCEPT !.disk = @ \ {polishFile}] ELSE w
  IN  IF exitOk THEN [w |-> w1, ret |-> TRUE]
      ELSE [w |-> [w1 EXCEPT !.errors = @ + 1], ret |-> FALSE]

\* Default_cGPSmapper: [w, ret]
Default_cGPSmapper(w, polishFile, exitOk, removeOk) ==
  IF exitOk
  THEN [w |-> IF removeOk THEN [w EXCEPT !.disk = @ \ {polishFile}] ELSE w, ret |-> TRUE]
  ELSE [w |-> [w EXCEPT !.errors = @ + 1], ret |-> FALSE]

\* a hook installed in place of the default one: [w, ret]
ReplacementHook(w, polishFile, ok, removes) ==
  [w |-> IF removes THEN [w EXCEPT !.disk = @ \ {polishFile}] ELSE w, ret |-> ok]

\* cGPSmapper(polishFile, outputFile): [w, ret]
cGPSmapper(w, polishFile, tool) ==
  LET w1 == Log(w, "cGPSmapper", <<polishFile, w.outputFile>>)
  IN  IF tool.hook = "Default_cGPSmapper"
      THEN Default_cGPSmapper(w1, polishFile, tool.ok, tool.removes)
      ELSE ReplacementHook(w1, polishFile, tool.ok, tool.removes)

\* Polish().Write(file, airspaces): [w, ret]; the file is on disk when it returns true
PolishWrite(w, file, writeOk) ==
  LET w1 == Log(w, "Polish::Write", file)
  IN  [w |-> IF writeOk THEN [w1 EXCEPT !.disk = @ \cup {file}] ELSE w1, ret |-> writeOk]

\* case OutputType::Garmin_Format of Convert
ConvertGarmin(w, writeOk, tool) ==
  LET polishFile == ReplaceExtension(w.outputFile, Ext_mp)
      written    == PolishWrite(w, polishFile, writeOk)
  IN  IF ~written.ret THEN written.w
      ELSE LET r == cGPSmapper(written.w, polishFile, tool)
           IN  [r.w EXCEPT !.conversionDone = r.ret]

\* faulty variant: Convert that does not reset conversionDone at its entry
Convert_noReset(w, writeOk, tool) ==
  LET type == DetermineType(w.outputFile)
  IN  CASE type \in {"KMZ_Format", "OpenAir_Format", "SeeYou_Format"}
             -> [w EXCEPT !.conversionDone = writeOk]
        [] type = "Polish_Format"
             -> [PolishWrite(w, w.outputFile, writeOk).w EXCEPT !.conversionDone = writeOk]
        [] type = "Garmin_Format"
             -> ConvertGarmin(w, writeOk, tool)
        [] OTHER
             -> [w EXCEPT !.errors = @ + 1]

\* faulty variant: Convert that drops the output path when the external tool fails
Convert_clearsOutput(w, writeOk, tool) ==
  LET w1   == [w EXCEPT !.conversionDone = FALSE]
      type == DetermineType(w1.outputFile)
  IN  CASE type \in {"KMZ_Format", "OpenAir_Format", "SeeYou_Format"}
             -> [w1 EXCEPT !.conversionDone = writeOk]
        [] type = "Polish_Format"
             -> [PolishWrite(w1, w1.outputFile, writeOk).w EXCEPT !.conversionDone = writeOk]
        [] type = "Garmin_Format"
             -> LET w2 == ConvertGarmin(w1, writeOk, tool)
                IN  IF writeOk /\ ~w2.conversionDone THEN [w2 EXCEPT !.outputFile = <<>>]
                    ELSE w2
        [] OTHER
             -> [w1 EXCEPT !.errors = @ + 1]

\* Convert, called with a non-empty outputFile.  writeOk is what the writer's Write
\* returns, tool what the cGPSmapper hook in effect does.  The value returned by
\* Convert is the conversionDone of the result.
Convert(w, writeOk, tool) ==
  LET w1   == [w EXCEPT !.conversionDone = FALSE]
      type == GetOutputType(w1)
  IN  CASE type \in {"KMZ_Format", "OpenAir_Format", "SeeYou_Format"}
             -> [w1 EXCEPT !.conversionDone = writeOk]
        [] type = "Polish_Format"
             -> [PolishWrite(w1, w1.outputFile, writeOk).w EXCEPT !.conversionDone = writeOk]
        [] type = "Garmin_Format"
             -> ConvertGarmin(w1, writeOk, tool)
        [] OTHER
             -> [w1 EXCEPT !.errors = @ + 1]

\* --------------------------------------------------------------- Geo Filter
\* Geometry::Limits::IsValid: latitudes and longitudes in range, the top above the
\* bottom, the two longitudes distinct
LimitsIsValid(limits) ==
  /\ limits.topLat <= 90 /\ limits.bottomLat >= -90
  /\ limits.leftLon >= -180 /\ limits.leftLon <= 180
  /\ limits.rightLon >= -180 /\ limits.rightLon <= 180
  /\ limits.topLat > limits.bottomLat
  /\ limits.leftLon # limits.rightLon

\* Geometry::Limits::IsPositionWithinLimits (a box with rightLon < leftLon lies
\* across the antimeridian)
IsPositionWithinLimits(limits, lat, lon) ==
  /\ lat <= limits.topLat /\ lat >= limits.bottomLat
  /\ IF limits.leftLon < limits.rightLon
     THEN lon >= limits.leftLon /\ lon <= limits.rightLon
     ELSE lon >= limits.leftLon \/ lon <= limits.rightLon

\* Airspace::IsWithinLimits: the answer of the geometry collaborator
IsWithinLimits(a, limits) == IsPositionWithinLimits(limits, a.lat, a.lon)

\* the airspace loop of FilterOnLatLonLimits, the iterator at position it; examined
\* lists the entries the loop has looked at
RECURSIVE FilterAirspacesLoop(_, _, _, _)
FilterAirspacesLoop(airspaces, limits, it, examined) ==
  IF it > Len(airspaces) THEN [airspaces |-> airspaces, examined |-> examined]
  ELSE IF IsWithinLimits(airspaces[it], limits)
       THEN FilterAirspacesLoop(airspaces, limits, it + 1, Append(examined, airspaces[it]))
       ELSE FilterAirspacesLoop(MMErase(airspaces, it), limits, it,
                                Append(examined, airspaces[it]))

\* faulty variant: the waypoint loop erasing the entry without delete(w)
RECURSIVE FilterWaypointsLoop_noDelete(_, _, _, _)
FilterWaypointsLoop_noDelete(w, limits, it, examined) ==
  IF it > Len(w.waypoints) THEN [w |-> w, examined |-> examined]
  ELSE LET ptr == w.waypoints[it].ptr
       IN  IF IsPositionWithinLimits(limits, w.heap[ptr].lat, w.heap[ptr].lon)
           THEN FilterWaypointsLoop_noDelete(w, limits, it + 1, Append(examined, ptr))
           ELSE FilterWaypointsLoop_noDelete([w EXCEPT !.waypoints = MMErase(@, it)],
                                             limits, it, Append(examined, ptr))

\* faulty variant: the waypoint loop stepping over the entry that follows an erased one
RECURSIVE FilterWaypointsLoop_skipsAfterErase(_, _, _, _)
FilterWaypointsLoop_skipsAfterErase(w, limits, it, examined) ==
  IF it > Len(w.waypoints) THEN [w |-> w, examined |-> examined]
  ELSE LET ptr == w.waypoints[it].ptr
       IN  IF IsPositionWithinLimits(limits, w.heap[ptr].lat, w.heap[ptr].lon)
           THEN FilterWaypointsLoop_skipsAfterErase(w, limits, it + 1, Append(examined, ptr))
           ELSE FilterWaypointsLoop_skipsAfterErase(
                  DeleteWaypoint([w EXCEPT !.waypoints = MMErase(@, it)], ptr),
                  limits, it + 1, Append(examined, ptr))

\* the waypoint loop of FilterOnLatLonLimits
RECURSIVE FilterWaypointsLoop(_, _, _, _)
FilterWaypointsLoop(w, limits, it, examined) ==
  IF it > Len(w.waypoints) THEN [w |-> w, examined |-> examined]
  ELSE LET ptr == w.waypoints[it].ptr
       IN  IF IsPositionWithinLimits(limits, w.heap[ptr].lat, w.heap[ptr].lon)
           THEN FilterWaypointsLoop(w, limits, it + 1, Append(examined, ptr))
           ELSE FilterWaypointsLoop(
                  DeleteWaypoint([w EXCEPT !.waypoints = MMErase(@, it)], ptr),
                  limits, it, Append(examined, ptr))

\* faulty variant: FilterOnLatLonLimits that filters before it validates the limits
FilterOnLatLonLimits_filtersBeforeValidating(w, limits) ==
  IF limits.topLat = 90 /\ limits.bottomLat = -90
     /\ limits.leftLon = -180 /\ limits.rightLon = 180
  THEN [w |-> w, ret |-> TRUE, examinedA |-> <<>>, examinedW |-> <<>>]
  ELSE LET fa == FilterAirspacesLoop(w.airspaces, limits, 1, <<>>)
           w1 == [w EXCEPT !.airspaces = fa.airspaces]
           fw == FilterWaypointsLoop(w1, limits, 1, <<>>)
       IN  [w |-> fw.w, ret |-> LimitsIsValid(limits),
            examinedA |-> fa.examined, examinedW |-> fw.examined]

\* FilterOnLatLonLimits: [w, ret, examinedA, examinedW]
FilterOnLatLonLimits(w, limits) ==
  IF limits.topLat = 90 /\ limits.bottomLat = -90
     /\ limits.leftLon = -180 /\ limits.rightLon = 180
  THEN [w |-> w, ret |-> TRUE, examinedA |-> <<>>, examinedW |-> <<>>]
  ELSE IF ~LimitsIsValid(limits)
  THEN [w |-> w, ret |-> FALSE, examinedA |-> <<>>, examinedW |-> <<>>]
  ELSE LET fa == FilterAirspacesLoop(w.airspaces, limits, 1, <<>>)
           w1 == [w EXCEPT !.airspaces = fa.airspaces]
           fw == FilterWaypointsLoop(w1, limits, 1, <<>>)
       IN  [w |-> fw.w, ret |-> TRUE, examinedA |-> fa.examined, examinedW |-> fw.examined]

\* --------------------------------------------------------- Altitude Parser
Digits == <<"0","1","2","3","4","5","6","7","8","9">>

\* the value of a decimal digit
DigitValue == [c \in {Digits[i] : i \in 1..10} |-> (CHOOSE i \in 1..10 : Digits[i] = c) - 1]

\* isDigit
IsDigit(c) == c \in DOMAIN DigitValue

\* std::stod on a string that starts with a digit and holds nothing but digits
\* before its last character: the value of the leading digit run, after value
RECURSIVE StodFrom(_, _, _)
StodFrom(str, k, value) ==
  IF k > Len(str) \/ ~IsDigit(str[k]) THEN value
  ELSE StodFrom(str, k + 1, value * 10 + DigitValue[str[k]])

Stod(str) == StodFrom(str, 1, 0)

\* boost::iequals(str, one of words)
IEqualsAny(str, words) == \E word \in words : IEquals(str, word)

Kw_AGL  == <<"A","G","L">>
Kw_AGND == <<"A","G","N","D">>
Kw_ASFC == <<"A","S","F","C">>
Kw_GND  == <<"G","N","D">>
Kw_SFC  == <<"S","F","C">>
Kw_MSL  == <<"M","S","L">>
Kw_AMSL == <<"A","M","S","L">>
Kw_ALT  == <<"A","L","T">>
Kw_FT   == <<"F","T">>
Kw_F    == <<"F">>
Kw_M    == <<"M">>
Kw_MT   == <<"M","T">>
Kw_FL   == <<"F","L">>
Kw_UNLIM     == <<"U","N","L","I","M">>
Kw_UNLIMITED == <<"U","N","L","I","M","I","T","E","D">>
Kw_UNL       == <<"U","N","L">>

\* the locals of ParseAltitude before its loop; i and s count from 0 as in the code,
\* failed is a return false from inside the loop
ParseStart(text) ==
  [ i |-> 1, s |-> 0, isNumber |-> IsDigit(text[1]), value |-> 0,
    isFL |-> FALSE, isAMSL |-> TRUE, valueFound |-> FALSE, typeFound |-> FALSE,
    isInFeet |-> TRUE, unitFound |-> FALSE, isUnlimited |-> FALSE, failed |-> FALSE ]

\* the token str is a number
ParseNumber(st, str) ==
  IF ~st.valueFound THEN [st EXCEPT !.value = Stod(str), !.valueFound = TRUE]
  ELSE [st EXCEPT !.failed = TRUE]

\* the token str is not a number
ParseWord(st, str) ==
  IF ~st.typeFound
  THEN IF st.valueFound
       THEN IF IEqualsAny(str, {Kw_AGL, Kw_AGND, Kw_ASFC, Kw_GND, Kw_SFC})
            THEN [st EXCEPT !.isAMSL = FALSE, !.typeFound = TRUE]
            ELSE IF IEqualsAny(str, {Kw_MSL, Kw_AMSL, Kw_ALT})
            THEN [st EXCEPT !.typeFound = TRUE]
            ELSE IF ~st.unitFound
            THEN IF IEqualsAny(str, {Kw_FT, Kw_F}) THEN [st EXCEPT !.unitFound = TRUE]
                 ELSE IF IEqualsAny(str, {Kw_M, Kw_MT})
                 THEN [st EXCEPT !.isInFeet = FALSE, !.unitFound = TRUE]
                 ELSE st
            ELSE st
       ELSE IF IEquals(str, Kw_FL)
            THEN [st EXCEPT !.isFL = TRUE, !.typeFound = TRUE]
            ELSE IF IEqualsAny(str, {Kw_GND, Kw_SFC})
            THEN [st EXCEPT !.isAMSL = FALSE, !.typeFound = TRUE, !.valueFound = TRUE,
                            !.unitFound = TRUE]
            ELSE IF IEqualsAny(str, {Kw_MSL, Kw_AMSL})
            THEN [st EXCEPT !.typeFound = TRUE, !.valueFound = TRUE, !.unitFound = TRUE]
            ELSE IF IEqualsAny(str, {Kw_UNLIM, Kw_UNLIMITED, Kw_UNL})
            THEN [st EXCEPT !.typeFound = TRUE, !.valueFound = TRUE, !.unitFound = TRUE,
                            !.isUnlimited = TRUE]
            ELSE st
  ELSE IF ~st.unitFound /\ ~st.typeFound THEN [st EXCEPT !.failed = TRUE] ELSE st

\* the for loop of ParseAltitude from the iteration st.i on: the locals when the loop
\* is left (by its condition, by break or by return false)
RECURSIVE ParseLoop(_, _)
ParseLoop(text, st) ==
  LET l == Len(text)
  IN  IF st.i >= l THEN st
      ELSE LET c      == text[st.i + 1]
               isLast == st.i = l - 1
               isSep  == c = " " \/ c = "="
           IN  IF IsDigit(c) # st.isNumber \/ isSep \/ isLast
               THEN LET str == IF isLast THEN SubSeq(text, st.s + 1, l)
                               ELSE SubSeq(text, st.s + 1, st.i)
                        st1 == IF st.isNumber THEN ParseNumber(st, str)
                               ELSE ParseWord(st, str)
                    IN  IF st1.failed THEN st1
                        ELSE IF st1.valueFound /\ st1.typeFound /\ st1.unitFound THEN st1
                        ELSE IF isSep
                        THEN LET i2 == st.i + 1
                             IN  ParseLoop(text,
                                   [st1 EXCEPT !.isNumber = IF i2 < l THEN IsDigit(text[i2 + 1])
                                                            ELSE @,
                                               !.s = i2, !.i = i2 + 1])
                        ELSE ParseLoop(text, [st1 EXCEPT !.isNumber = ~@, !.s = st.i,
                                                         !.i = st.i + 1])
               ELSE ParseLoop(text, [st EXCEPT !.i = @ + 1])

NoAltitude == [mode |-> "none", value |-> 0, isAMSL |-> TRUE]

\* ParseAltitude: [ok, alt], alt the Altitude given to the airspace (as its top or
\* as its base).  Unlimited and flight-level altitudes are AMSL.
ParseAltitude(text) ==
  IF text = <<>> THEN [ok |-> FALSE, alt |-> NoAltitude]
  ELSE LET st == ParseLoop(text, ParseStart(text))
       IN  IF st.failed \/ ~st.valueFound THEN [ok |-> FALSE, alt |-> NoAltitude]
           ELSE [ok |-> TRUE,
                 alt |-> IF st.isUnlimited
                         THEN [mode |-> "Unlimited", value |-> 0, isAMSL |-> TRUE]
                         ELSE IF st.isFL
                         THEN [mode |-> "FlightLevel", value |-> st.value, isAMSL |-> TRUE]
                         ELSE IF st.isInFeet
                         THEN [mode |-> "Ft", value |-> st.value, isAMSL |-> st.isAMSL]
                         ELSE [mode |-> "Mt", value |-> st.value, isAMSL |-> st.isAMSL]]

\* -------------------------------------------------- Batch Directory Pipeline
\* the character codes that order the keys of aipFilesIndex (std::map<std::string>)
CharOrder == <<".">> \o UpperChars \o <<"_">> \o LowerChars

CharCodes == [c \in {CharOrder[i] : i \in 1..Len(CharOrder)} |->
                CHOOSE i \in 1..Len(CharOrder) : CharOrder[i] = c]

CharCode(c) == CharCodes[c]

\* std::string operator<
RECURSIVE StringLess(_, _)
StringLess(a, b) ==
  IF b = <<>> THEN FALSE
  ELSE IF a = <<>> THEN TRUE
  ELSE IF a[1] # b[1] THEN CharCode(a[1]) < CharCode(b[1])
  ELSE StringLess(Tail(a), Tail(b))

\* the keys of a std::map in iteration order
RECURSIVE SortedKeys(_)
SortedKeys(keys) ==
  IF keys = {} THEN <<>>
  ELSE LET m == CHOOSE k \in keys : \A o \in keys \ {k} : StringLess(k, o)
       IN  <<m>> \o SortedKeys(keys \ {m})

\* boost::filesystem::is_directory
IsDirectory(p) == p = DirPath

NoContent == [asp |-> FALSE, hot |-> FALSE, nav |-> FALSE, wpt |-> FALSE]

\* faulty variant: the scan that assigns the flags of the file to the country in
\* place of merging them
ScanEntry_overwrites(index, entry) ==
  IF entry.regular /\ entry.size # 0 /\ IEquals(Extension(entry.name), Ext_aip)
  THEN LET filename == Stem(entry.name)
       IN  IF Len(filename) = 6 /\ filename[3] = "_"
           THEN LET countryCode == SubSeq(filename, 1, 2)
                    known == \E c \in {<<"a","s","p">>, <<"w","p","t">>, <<"n","a","v">>,
                                        <<"h","o","t">>} : EndsWith(filename, c)
                    newContent ==
                      IF EndsWith(filename, <<"a","s","p">>) THEN [NoContent EXCEPT !.asp = TRUE]
                      ELSE IF EndsWith(filename, <<"w","p","t">>) THEN [NoContent EXCEPT !.wpt = TRUE]
                      ELSE IF EndsWith(filename, <<"n","a","v">>) THEN [NoContent EXCEPT !.nav = TRUE]
                      ELSE [NoContent EXCEPT !.hot = TRUE]
                IN  IF ~known THEN index
                    ELSE IF countryCode \notin DOMAIN index
                    THEN (countryCode :> newContent) @@ index
                    ELSE [index EXCEPT ![countryCode] = newContent]
           ELSE index
  ELSE index

\* one iteration of the directory scan: the index after the directory entry
ScanEntry(index, entry) ==
  IF entry.regular /\ entry.size # 0 /\ IEquals(Extension(entry.name), Ext_aip)
  THEN LET filename == Stem(entry.name)
       IN  IF Len(filename) = 6 /\ filename[3] = "_"
           THEN LET countryCode == SubSeq(filename, 1, 2)
                    known == \E c \in {<<"a","s","p">>, <<"w","p","t">>, <<"n","a","v">>,
                                        <<"h","o","t">>} : EndsWith(filename, c)
                    newContent ==
                      IF EndsWith(filename, <<"a","s","p">>) THEN [NoContent EXCEPT !.asp = TRUE]
                      ELSE IF EndsWith(filename, <<"w","p","t">>) THEN [NoContent EXCEPT !.wpt = TRUE]
                      ELSE IF EndsWith(filename, <<"n","a","v">>) THEN [NoContent EXCEPT !.nav = TRUE]
                      ELSE [NoContent EXCEPT !.hot = TRUE]
                IN  IF ~known THEN index
                    ELSE IF countryCode \notin DOMAIN index
                    THEN (countryCode :> newContent) @@ index
                    ELSE [index EXCEPT ![countryCode] =
                            [asp |-> @.asp \/ newContent.asp, hot |-> @.hot \/ newContent.hot,
                             nav |-> @.nav \/ newContent.nav, wpt |-> @.wpt \/ newContent.wpt]]
           ELSE index
  ELSE index

\* the directory scan: aipFilesIndex after the entries of listing from i on
RECURSIVE BuildIndex(_, _, _)
BuildIndex(index, listing, i) ==
  IF i > Len(listing) THEN index
  ELSE BuildIndex(ScanEntry(index, listing[i]), listing, i + 1)

EmptyIndex == [c \in {} |-> NoContent]

\* faulty variant: ConvertOpenAIPdir that returns false for a path that is not a
\* directory without a LogError
DirEntry_silentNotADirectory(w, openAIPdir, listing) ==
  IF openAIPdir = <<>> \/ ~IsDirectory(openAIPdir)
  THEN [w |-> w, ret |-> "false", index |-> EmptyIndex]
  ELSE LET w1 == UnloadWaypoints(UnloadAirspaces(w))
           aipFilesIndex == BuildIndex(EmptyIndex, listing, 1)
       IN  IF DOMAIN aipFilesIndex = {}
           THEN [w |-> [w1 EXCEPT !.errors = @ + 1], ret |-> "false", index |-> aipFilesIndex]
           ELSE [w |-> w1, ret |-> "run", index |-> aipFilesIndex]

\* ConvertOpenAIPdir up to the loop over the index: [w, ret, index], ret "run" when
\* the loop is entered
DirEntry(w, openAIPdir, listing) ==
  IF openAIPdir = <<>> THEN [w |-> w, ret |-> "false", index |-> EmptyIndex]
  ELSE IF ~IsDirectory(openAIPdir)
  THEN [w |-> [w EXCEPT !.errors = @ + 1], ret |-> "false", index |-> EmptyIndex]
  ELSE LET w1 == UnloadWaypoints(UnloadAirspaces(w))
           aipFilesIndex == BuildIndex(EmptyIndex, listing, 1)
       IN  IF DOMAIN aipFilesIndex = {}
           THEN [w |-> [w1 EXCEPT !.errors = @ + 1], ret |-> "false", index |-> aipFilesIndex]
           ELSE [w |-> w1, ret |-> "run", index |-> aipFilesIndex]

\* faulty variant: the path of a file of the country without its suffix
CountryFile_withoutSuffix(openAIPpath, countryCode, suffix) == PathJoin(openAIPpath, countryCode)

\* openAIPpath / std::string(countryCode + suffix)
CountryFile(openAIPpath, countryCode, suffix) == PathJoin(openAIPpath, countryCode \o suffix)

\* if (asp) { ... }
DirAsp(w, openAIPpath, countryCode, content, outs, writeOk) ==
  IF ~content.asp THEN w
  ELSE LET aspPath == CountryFile(openAIPpath, countryCode, Str_asp_aip)
           w1 == Log(AddAirspaceFile(w, aspPath), "LoadAirspaces", aspPath)
           w2 == LoadAirspaces(w1, "KMZ_Format", outs)
           w3 == [w2 EXCEPT !.outputFile = ReplaceExtension(aspPath, Ext_txt)]
       IN  Convert(Log(w3, "Convert", w3.outputFile), writeOk, NoTool)

\* if (wpt) { ... }: airfieldsFile is w.airfieldsFile
DirWpt(w, openAIPpath, countryCode, content, outs, writeOk) ==
  IF ~content.wpt THEN w
  ELSE LET wptPath == CountryFile(openAIPpath, countryCode, Str_wpt_aip)
           w0 == [w EXCEPT !.airfieldsFile = wptPath]
           w1 == Log(AddWaypointFile(w0, w0.airfieldsFile), "LoadWaypoints", w0.airfieldsFile)
           w2 == LoadWaypoints(w1, outs)
           w3 == [w2 EXCEPT !.outputFile = ReplaceExtension(wptPath, Ext_cup)]
       IN  Convert(Log(w3, "Convert", w3.outputFile), writeOk, NoTool)

\* if (nav) { ... }
DirNav(w, openAIPpath, countryCode, content, outs, writeOk) ==
  IF ~content.nav THEN w
  ELSE LET w0 == IF content.wpt THEN UnloadWaypoints(Log(w, "UnloadWaypoints", <<>>)) ELSE w
           navPath == CountryFile(openAIPpath, countryCode, Str_nav_aip)
           w1 == Log(AddWaypointFile(w0, navPath), "LoadWaypoints", navPath)
           w2 == LoadWaypoints(w1, outs)
           w3 == [w2 EXCEPT !.outputFile = ReplaceExtension(navPath, Ext_cup)]
       IN  Convert(Log(w3, "Convert", w3.outputFile), writeOk, NoTool)

\* if (!airfieldsFile.empty()) { ... }
DirReload(w, outs) ==
  IF w.airfieldsFile = <<>> THEN w
  ELSE LET w1 == Log(AddWaypointFile(w, w.airfieldsFile), "LoadWaypoints", w.airfieldsFile)
       IN  LoadWaypoints(w1, outs)

\* the KMZ file with all
DirKmz(w, openAIPpath, countryCode, writeOk) ==
  LET w1 == [w EXCEPT !.outputFile = CountryFile(openAIPpath, countryCode, Str_kmz)]
  IN  Convert(Log(w1, "Convert", w1.outputFile), writeOk, NoTool)

\* faulty variant: the end of the loop body without UnloadWaypoints
DirUnload_keepsWaypoints(w) == UnloadAirspaces(w)

\* the end of the loop body
DirUnload(w) == UnloadWaypoints(UnloadAirspaces(w))

\* ------------------------------------------------------------------- state
VARIABLES
  airspaces,       \* std::multimap<int, Airspace>, in iteration order
  waypoints,       \* std::multimap<int, Waypoint*>, in iteration order
  airspaceFiles,   \* pending airspace input files
  waypointFiles,   \* pending waypoint input files
  outputFile,      \* the output path, <<>> when not set
  conversionDone,  \* the completion flag
  heap,            \* the Waypoint objects
  heapFault,       \* a delete of something not allocated has happened
  errors,          \* LogError calls of the running (or last) operation
  pc,              \* "idle", or the position of ConvertOpenAIPdir in its loop body
  openAIPpath,     \* ConvertOpenAIPdir: the directory
  aipFilesIndex,   \* ConvertOpenAIPdir: country code -> content flags
  record,          \* ConvertOpenAIPdir: position of the loop in the index
  airfieldsFile,   \* ConvertOpenAIPdir: the airfields file of the country
  trace,           \* ConvertOpenAIPdir: the calls made for the country so far
  disk,            \* the Polish files on disk
  call             \* the last call of the public interface: its name, what it returned,
                   \* its argument, and info: the completion flag (done) and the number
                   \* of pending files at its entry, what the collaborators answered

vars == <<airspaces, waypoints, airspaceFiles, waypointFiles, outputFile, conversionDone,
          heap, heapFault, errors, pc, openAIPpath, aipFilesIndex, record, airfieldsFile,
          trace, disk, call>>

dirLocals == <<pc, openAIPpath, aipFilesIndex, record>>

\* the session as the operators take it; reads is the record of what the running
\* Load does with its pending files
W == [reads |-> <<>>,
      airspaces |-> airspaces, waypoints |-> waypoints, airspaceFiles |-> airspaceFiles,
      waypointFiles |-> waypointFiles, outputFile |-> outputFile,
      conversionDone |-> conversionDone, heap |-> heap, heapFault |-> heapFault,
      errors |-> errors, airfieldsFile |-> airfieldsFile, trace |-> trace, disk |-> disk]

\* the session at the entry of a call of the public interface
Entry == [W EXCEPT !.errors = 0]

Commit(w) ==
  /\ airspaces' = w.airspaces
  /\ waypoints' = w.waypoints
  /\ airspaceFiles' = w.airspaceFiles
  /\ waypointFiles' = w.waypointFiles
  /\ outputFile' = w.outputFile
  /\ conversionDone' = w.conversionDone
  /\ heap' = w.heap
  /\ heapFault' = w.heapFault
  /\ errors' = w.errors
  /\ airfieldsFile' = w.airfieldsFile
  /\ trace' = w.trace
  /\ disk' = w.disk

Bool(b) == IF b THEN "true" ELSE "false"

\* ------------------------------------------------------------------ inputs
DirArguments   == { <<>>, NotADirPath, DirPath }

Box(t, b, l, r) == [topLat |-> t, bottomLat |-> b, leftLon |-> l, rightLon |-> r]
FullGlobe == Box(90, -90, -180, 180)
Boxes == { FullGlobe, Box(0, 45, 0, 45), Box(100, 0, 0, 45),
           Box(45, 0, 0, 45), Box(55, 45, 90, 180), Box(90, 45, 90, 180) }

DirEntryOf(name) == [name |-> name, regular |-> TRUE, size |-> 1]
Name_aa_asp == <<"a","a">> \o Str_asp_aip
Name_aa_wpt == <<"a","a">> \o Str_wpt_aip
Name_aa_nav == <<"a","a","_","n","a","v",".","A","I","P">>
Name_aa_hot == <<"a","a","_","h","o","t",".","a","i","p">>
Name_bb_nav == <<"b","b">> \o Str_nav_aip
Name_Ab_wpt == <<"A","b">> \o Str_wpt_aip

\* directory entries that the scan indexes
GoodEntries == << DirEntryOf(Name_aa_asp), DirEntryOf(Name_aa_wpt), DirEntryOf(Name_aa_nav),
                  DirEntryOf(Name_aa_hot), DirEntryOf(Name_bb_nav), DirEntryOf(Name_Ab_wpt) >>

\* directory entries that the scan passes over
JunkEntries == << DirEntryOf(<<"r","e","a","d","m","e",".","a","i","p">>),
                  DirEntryOf(<<"a","a","_","x","y","z",".","a","i","p">>),
                  DirEntryOf(<<"a","a","_","a","s","p",".","t","x","t">>),
                  [name |-> Name_bb_nav, regular |-> TRUE, size |-> 0],
                  [name |-> Name_bb_nav, regular |-> FALSE, size |-> 1] >>

\* the entries of all at the positions in pick, in order
RECURSIVE Pick(_, _, _)
Pick(all, pick, i) ==
  IF i > Len(all) THEN <<>>
  ELSE (IF i \in pick THEN <<all[i]>> ELSE <<>>) \o Pick(all, pick, i + 1)

\* the directories ConvertOpenAIPdir is called on: every combination of the content
\* kinds of country aa, then several countries, then entries the scan passes over
Listings == { Pick(GoodEntries, s, 1) : s \in SUBSET (1..4) }
            \cup { Pick(GoodEntries, {2, 3, 5}, 1), Pick(GoodEntries, {3, 6}, 1),
                   JunkEntries, JunkEntries \o Pick(GoodEntries, {2, 5}, 1) }

FilterListings == { Pick(GoodEntries, {2, 3}, 1), Pick(GoodEntries, {1, 5}, 1) }

\* the calls of ConvertOpenAIPdir: its argument and what the directory holds
DirCalls == { <<d, l>> : d \in {DirPath}, l \in Listings }
            \cup { <<d, Pick(GoodEntries, {1}, 1)>> : d \in DirArguments }

\* what the readers of the files of a pending list may do
Readable(f, exts) == \E e \in exts : IEquals(Extension(f), e)

RECURSIVE AirspaceOuts(_, _)
AirspaceOuts(files, i) ==
  IF i > Len(files) THEN { <<>> }
  ELSE LET ns == IF Readable(files[i], {Ext_txt, Ext_aip, Ext_kmz, Ext_kml})
                 THEN 0..Len(FileEntities(files[i])) ELSE {0}
       IN  { <<n>> \o rest : n \in ns, rest \in AirspaceOuts(files, i + 1) }

RECURSIVE WaypointOuts(_, _)
WaypointOuts(files, i) ==
  IF i > Len(files) THEN { <<>> }
  ELSE LET os == IF Readable(files[i], {Ext_cup, Ext_aip})
                 THEN [ok : BOOLEAN, n : 0..Len(FileEntities(files[i]))]
                 ELSE { [ok |-> FALSE, n |-> 0] }
       IN  { <<o>> \o rest : o \in os, rest \in WaypointOuts(files, i + 1) }

\* -------------------------------------------------------------------- Init
\* the session after AirspaceConverter::AirspaceConverter()
Init ==
  /\ airspaces = <<>>
  /\ waypoints = <<>>
  /\ airspaceFiles = <<>>
  /\ waypointFiles = <<>>
  /\ outputFile = <<>>
  /\ conversionDone = FALSE
  /\ heap = EmptyHeap
  /\ heapFault = FALSE
  /\ errors = 0
  /\ pc = "idle"
  /\ openAIPpath = <<>>
  /\ aipFilesIndex = EmptyIndex
  /\ record = 0
  /\ airfieldsFile = <<>>
  /\ trace = <<>>
  /\ disk = {}
  /\ call = [op |-> "AirspaceConverter", ret |-> "void", arg |-> <<>>, info |-> <<>>]

Called(op, ret, arg, info) == call' = [op |-> op, ret |-> ret, arg |-> arg, info |-> info]

\* ----------------------------------------------------------------- actions
CallAddAirspaceFile(f, cap) ==
  /\ pc = "idle"
  /\ Len(airspaceFiles) < cap
  /\ Commit(AddAirspaceFile(Entry, f))
  /\ Called("AddAirspaceFile", "void", <<>>, <<>>)
  /\ UNCHANGED dirLocals

CallAddWaypointFile(f, cap) ==
  /\ pc = "idle"
  /\ Len(waypointFiles) < cap
  /\ Commit(AddWaypointFile(Entry, f))
  /\ Called("AddWaypointFile", "void", <<>>, <<>>)
  /\ UNCHANGED dirLocals

SetOutputFile(w, outputFilename) == [w EXCEPT !.outputFile = outputFilename]

CallSetOutputFile(p) ==
  /\ pc = "idle"
  /\ Commit(SetOutputFile(Entry, p))
  /\ Called("SetOutputFile", "void", <<>>, <<>>)
  /\ UNCHANGED dirLocals

CallLoadAirspaces(suggestedType) ==
  /\ pc = "idle"
  /\ \E outs \in AirspaceOuts(airspaceFiles, 1) :
       LET w == LoadAirspaces(Entry, suggestedType, outs)
       IN  /\ Commit(w)
           /\ Called("LoadAirspaces", "void", suggestedType,
                     [done |-> conversionDone, pending |-> Len(airspaceFiles),
                      reads |-> w.reads, outputFile |-> outputFile,
                      asps |-> Len(airspaces)])
  /\ UNCHANGED dirLocals

CallUnloadAirspaces ==
  /\ pc = "idle"
  /\ Commit(UnloadAirspaces(Entry))
  /\ Called("UnloadAirspaces", "void", <<>>, [done |-> conversionDone])
  /\ UNCHANGED dirLocals

CallLoadWaypoints ==
  /\ pc = "idle"
  /\ \E outs \in WaypointOuts(waypointFiles, 1) :
       LET w == LoadWaypoints(Entry, outs)
       IN  /\ Commit(w)
           /\ Called("LoadWaypoints", "void", <<>>,
                     [done |-> conversionDone, pending |-> Len(waypointFiles),
                      reads |-> w.reads])
  /\ UNCHANGED dirLocals

CallUnloadWaypoints ==
  /\ pc = "idle"
  /\ Commit(UnloadWaypoints(Entry))
  /\ Called("UnloadWaypoints", "void", <<>>, [done |-> conversionDone])
  /\ UNCHANGED dirLocals

\* Convert, with one of tools as the hook in effect; the hook is an input of the
\* calls that reach it
CallConvert(tools) ==
  /\ pc = "idle"
  /\ outputFile # <<>>
  /\ \E writeOk \in BOOLEAN, tool \in tools \cup {NoTool} :
       LET w == Convert(Entry, writeOk, tool)
           type == GetOutputType(Entry)
       IN  /\ (type = "Garmin_Format" /\ writeOk) \/ tool = NoTool
           /\ Commit([w EXCEPT !.trace = <<>>])
           /\ Called("Convert", Bool(w.conversionDone), <<>>,
                     [type |-> type, done |-> conversionDone,
                      writerOk |-> CASE type = "Unknown_Format" -> FALSE
                                     [] type = "Garmin_Format"  -> writeOk /\ tool.ok
                                     [] OTHER                   -> writeOk,
                      outputFile |-> outputFile, writeOk |-> writeOk, tool |-> tool,
                      calls |-> [i \in 1..Len(w.trace) |->
                                   [op |-> w.trace[i].op, path |-> w.trace[i].path]]])
  /\ UNCHANGED dirLocals

CallFilterOnLatLonLimits(limits) ==
  /\ pc = "idle"
  /\ LET r == FilterOnLatLonLimits(Entry, limits)
     IN  /\ Commit(r.w)
         /\ Called("FilterOnLatLonLimits", Bool(r.ret), limits,
                   [asps |-> Len(airspaces), wpts |-> Len(waypoints)])
  /\ UNCHANGED dirLocals

\* ConvertOpenAIPdir, from its entry to the first iteration of its loop (or its return)
CallConvertOpenAIPdir(openAIPdir, listing) ==
  /\ pc = "idle"
  /\ LET r == DirEntry(Entry, openAIPdir, listing)
     IN  /\ Commit(r.w)
         /\ Called("ConvertOpenAIPdir", r.ret, openAIPdir,
                   [index |-> r.index, processed |-> <<>>, listing |-> listing])
         /\ IF r.ret = "run"
            THEN /\ pc' = "asp"
                 /\ openAIPpath' = openAIPdir
                 /\ aipFilesIndex' = r.index
                 /\ record' = 1
            ELSE UNCHANGED dirLocals

\* the country the loop is at
CountryCode == SortedKeys(DOMAIN aipFilesIndex)[record]
Content == aipFilesIndex[CountryCode]

StepAsp ==
  /\ pc = "asp"
  /\ \E outs \in AirspaceOuts(Append(airspaceFiles, CountryFile(openAIPpath, CountryCode, Str_asp_aip)), 1), writeOk \in BOOLEAN :
       Commit(DirAsp(W, openAIPpath, CountryCode, Content, outs, writeOk))
  /\ pc' = "wpt"
  /\ UNCHANGED <<openAIPpath, aipFilesIndex, record, call>>

StepWpt ==
  /\ pc = "wpt"
  /\ \E outs \in WaypointOuts(Append(waypointFiles,
                                     CountryFile(openAIPpath, CountryCode, Str_wpt_aip)), 1),
        writeOk \in BOOLEAN :
       Commit(DirWpt(W, openAIPpath, CountryCode, Content, outs, writeOk))
  /\ pc' = "nav"
  /\ UNCHANGED <<openAIPpath, aipFilesIndex, record, call>>

StepNav ==
  /\ pc = "nav"
  /\ \E outs \in WaypointOuts(Append(waypointFiles,
                                     CountryFile(openAIPpath, CountryCode, Str_nav_aip)), 1),
        writeOk \in BOOLEAN :
       Commit(DirNav(W, openAIPpath, CountryCode, Content, outs, writeOk))
  /\ pc' = "reload"
  /\ UNCHANGED <<openAIPpath, aipFilesIndex, record, call>>

StepReload ==
  /\ pc = "reload"
  /\ \E outs \in WaypointOuts(Append(waypointFiles, airfieldsFile), 1) :
       Commit(DirReload(W, outs))
  /\ pc' = "kmz"
  /\ UNCHANGED <<openAIPpath, aipFilesIndex, record, call>>

StepKmz ==
  /\ pc = "kmz"
  /\ \E writeOk \in BOOLEAN :
       Commit(DirKmz(W, openAIPpath, CountryCode, writeOk))
  /\ pc' = "unload"
  /\ UNCHANGED <<openAIPpath, aipFilesIndex, record, call>>

\* the end of the loop body, and then the next country or return true
StepUnload ==
  /\ pc = "unload"
  /\ Commit([DirUnload(W) EXCEPT !.airfieldsFile = <<>>, !.trace = <<>>])
  /\ IF record < Cardinality(DOMAIN aipFilesIndex)
     THEN /\ pc' = "asp"
          /\ record' = record + 1
          /\ call' = [call EXCEPT !.info.processed =
                                    Append(@, [cc |-> CountryCode, done |-> conversionDone])]
          /\ UNCHANGED <<openAIPpath, aipFilesIndex>>
     ELSE /\ pc' = "idle"
          /\ record' = 0
          /\ openAIPpath' = <<>>
          /\ aipFilesIndex' = EmptyIndex
          /\ call' = [call EXCEPT !.ret = "true",
                                  !.info.processed =
                                    Append(@, [cc |-> CountryCode, done |-> conversionDone])]

\* the loop body of ConvertOpenAIPdir
DirSteps == StepAsp \/ StepWpt \/ StepNav \/ StepReload \/ StepKmz \/ StepUnload

\* everything but call
session == <<airspaces, waypoints, airspaceFiles, waypointFiles, outputFile, conversionDone,
             heap, heapFault, errors, pc, openAIPpath, aipFilesIndex, record, airfieldsFile,
             trace, disk>>

\* the paths DetermineType and PutTypeExtension are given: the empty path, and a
\* file name (alone, in a directory, in a directory with a dot in its name, with a
\* dot in its stem) without extension or with an extension in some letter case
PathStems == { <<"o">>, <<"d","/","o">>, <<"d",".","x","/","o">>, <<"a",".","b">> }

PathExtensions ==
  { <<>>, <<".">>,
    Ext_txt, <<".","T","X","T">>, <<".","T","x","t">>,
    Ext_cup, <<".","C","U","P">>,
    Ext_mp,  <<".","M","p">>,
    Ext_img, <<".","I","M","G">>,
    Ext_kmz, <<".","K","m","Z">>,
    Ext_kml, <<".","d","a","t">>, <<".","t","x">>, <<".","t","x","t","x">> }

Paths == { <<>> } \cup { stem \o ext : stem \in PathStems, ext \in PathExtensions }

CallDetermineType(filename) ==
  /\ pc = "idle"
  /\ Called("DetermineType", DetermineType(filename), filename, <<>>)
  /\ UNCHANGED session

CallPutTypeExtension(type, filename) ==
  /\ pc = "idle"
  /\ LET r == PutTypeExtension(type, filename)
     IN  Called("PutTypeExtension", Bool(r.ok), [type |-> type, filename |-> filename],
                [filename |-> r.filename])
  /\ UNCHANGED session

\* the texts ParseAltitude is given
DigitRuns == { <<"5">>, <<"1","0","0">> }

\* what may stand between the digit run and the unit
UnitSeparators == { <<>>, <<" ">>, <<"=">> }

UnitWords == { Kw_FT, Kw_F, Kw_M, Kw_MT, <<"m">> }

GroundReferenceWords == { Kw_AGL, Kw_AGND, Kw_ASFC, Kw_GND, Kw_SFC }

SeaReferenceWords == { Kw_MSL, Kw_AMSL, Kw_ALT }

ReferenceWords == GroundReferenceWords \cup SeaReferenceWords

\* a digit run and a unit, with no reference, with one after the unit, with one
\* before the unit
UnitTexts(run, sep, unit) ==
  { run \o sep \o unit }
  \cup { run \o sep \o unit \o <<" ">> \o ref : ref \in ReferenceWords }
  \cup { run \o sep \o ref \o <<" ">> \o unit : ref \in ReferenceWords }

FlightLevelMarkers == { Kw_FL, <<"f","l">>, <<"F","l">> }

FlightLevelRuns == DigitRuns \cup { <<"0","5">>, <<"3","5","0">> }

\* a digit run and a reference, no unit
ReferenceText(run, ref) == run \o <<" ">> \o ref

\* texts without a digit run and without a keyword that stands for an altitude
NoValueTexts ==
  { <<>>, <<"a","b","c">>, <<"a">>, <<" ">>, Kw_FT, Kw_AGL, Kw_ALT,
    <<"f","t"," ","a","g","l">>, <<"G","N","D","X">>, <<"F","L">> }

\* two digit runs: the second right after the first, or after the unit, or after a
\* reference, the text ending with it or going on with a unit
TwoRunTexts(run, second) ==
  { run \o <<" ">> \o second,
    run \o <<"=">> \o second,
    run \o <<" ">> \o second \o <<" ">> \o Kw_FT,
    run \o <<" ">> \o Kw_FT \o <<" ">> \o second,
    run \o Kw_FT \o second,
    run \o <<" ">> \o Kw_AGL \o <<" ">> \o second,
    run \o <<" ">> \o Kw_AGL \o <<" ">> \o second \o <<" ">> \o Kw_FT }

GroundWords == { Kw_GND, Kw_SFC, <<"g","n","d">> }

SeaWords == { Kw_MSL, Kw_AMSL, <<"A","m","s","l">> }

UnlimitedWords == { Kw_UNLIM, Kw_UNLIMITED, Kw_UNL, <<"u","n","l">> }

\* what may follow a keyword that stands for an altitude
FollowingTexts ==
  { <<" ">>, <<"5">>, <<"5","0","0">>, <<" ","5","0","0">>, <<"="," ">>,
    <<" ">> \o Kw_FT, <<" ">> \o Kw_AGL, <<"=">> \o Kw_MT }

AltitudeTexts ==
  UNION { UnitTexts(run, sep, unit) :
            run \in DigitRuns, sep \in UnitSeparators, unit \in UnitWords }
  \cup { fl \o run : fl \in FlightLevelMarkers, run \in FlightLevelRuns }
  \cup DigitRuns
  \cup { ReferenceText(run, ref) : run \in DigitRuns, ref \in ReferenceWords }
  \cup NoValueTexts
  \cup UNION { TwoRunTexts(run, second) : run \in DigitRuns, second \in DigitRuns }
  \cup { word \o rest : word \in GroundWords \cup SeaWords \cup UnlimitedWords,
                        rest \in {<<>>} \cup FollowingTexts }

CallParseAltitude(text) ==
  /\ pc = "idle"
  /\ LET r == ParseAltitude(text)
     IN  Called("ParseAltitude", Bool(r.ok), text, r.alt)
  /\ UNCHANGED session

\* -------------------------------------------------------- specifications
\* The session driven through its load / convert / unload interface.
NextSession ==
  \/ \E f \in {File_k_kml, File_x_dat} : CallAddAirspaceFile(f, MaxStale)
  \/ CallAddWaypointFile(File_v_cup, MaxStale)
  \/ CallSetOutputFile(<<"o">>)
  \/ CallLoadAirspaces("Garmin_Format")
  \/ CallUnloadAirspaces
  \/ CallLoadWaypoints
  \/ CallUnloadWaypoints
  \/ CallConvert(DefaultTools)

SpecSession == Init /\ [][NextSession]_vars

\* The session with the geographic filter, and the directory pipeline as one more
\* source of waypoints.  The collections are built up by loads of one file at a time.
NextFilter ==
  \/ airspaceFiles = <<>> /\ CallAddAirspaceFile(File_a_txt, MaxStale)
  \/ waypointFiles = <<>> /\ CallAddWaypointFile(File_w_cup, MaxStale)
  \/ CallLoadAirspaces("KMZ_Format")
  \/ CallUnloadAirspaces
  \/ CallLoadWaypoints
  \/ CallUnloadWaypoints
  \/ CallConvert(DefaultTools)
  \/ \E limits \in Boxes : CallFilterOnLatLonLimits(limits)
  \/ \E listing \in FilterListings : CallConvertOpenAIPdir(DirPath, listing)
  \/ DirSteps

SpecFilter == Init /\ [][NextFilter]_vars

\* The two static functions on output types, on every path of Paths.
NextType ==
  \/ \E filename \in Paths : CallDetermineType(filename)
  \/ \E type \in OutputTypes, filename \in Paths : CallPutTypeExtension(type, filename)

SpecType == Init /\ [][NextType]_vars

\* The altitude parser, on every text of AltitudeTexts.
NextAltitude == \E text \in AltitudeTexts : CallParseAltitude(text)

SpecAltitude == Init /\ [][NextAltitude]_vars

\* Convert to the Garmin format and to its neighbours, with every hook.
GarminOutputs ==
  { <<"o",".","i","m","g">>, <<"d",".","x","/","o",".","I","m","G">>,
    <<"o",".","m","p">>, <<"o",".","k","m","z">>, <<"o">> }

NextGarmin ==
  \/ CallAddAirspaceFile(File_k_kml, MaxStale)
  \/ CallLoadAirspaces("Garmin_Format")
  \/ CallUnloadAirspaces
  \/ \E p \in GarminOutputs : CallSetOutputFile(p)
  \/ CallConvert(Tools)

SpecGarmin == Init /\ [][NextGarmin]_vars

\* LoadAirspaces with every preferred output type, on pending lists of files that
\* are read, that are read and give nothing, and that are not read.
NextInfer ==
  \/ \E f \in {File_a_txt, File_k_kml, File_x_dat} : CallAddAirspaceFile(f, MaxPending)
  \/ \E suggestedType \in OutputTypes : CallLoadAirspaces(suggestedType)
  \/ CallUnloadAirspaces

SpecInfer == Init /\ [][NextInfer]_vars

\* The two loads, on pending lists of files that are read and of files that are not.
NextLoad ==
  \/ \E f \in {File_k_kml, File_x_dat} : CallAddAirspaceFile(f, MaxPending)
  \/ \E f \in {File_v_cup, File_x_dat} : CallAddWaypointFile(f, MaxPending)
  \/ CallLoadAirspaces("KMZ_Format")
  \/ CallLoadWaypoints

SpecLoad == Init /\ [][NextLoad]_vars

\* The directory pipeline, called on a session in any state the loads leave.
NextDir ==
  \/ CallAddAirspaceFile(File_k_kml, MaxStale)
  \/ CallAddWaypointFile(File_v_cup, MaxStale)
  \/ CallLoadAirspaces("KMZ_Format")
  \/ CallLoadWaypoints
  \/ \E c \in DirCalls : CallConvertOpenAIPdir(c[1], c[2])
  \/ DirSteps

SpecDir == Init /\ [][NextDir]_vars

\* ------------------------------------------------------------------ claims
LoadOps   == {"LoadAirspaces", "LoadWaypoints"}
UnloadOps == {"UnloadAirspaces", "UnloadWaypoints"}

C2_ConvertFlagIffWriterSuccess ==
  call.op = "Convert" =>
    /\ conversionDone <=> call.info.writerOk
    /\ call.ret = Bool(conversionDone)

\* a vendor-compiled conversion that failed on a session whose flag was true
C2_Witness ==
  /\ call.op = "Convert"
  /\ call.info.type = "Garmin_Format"
  /\ call.info.done
  /\ ~call.info.writerOk
  /\ ~conversionDone

\* C3: Convert changes neither collection (nor any Waypoint), neither pending-file
\* list nor the output path, whether it succeeds or fails.
C3_ConvertKeepsCollectionsListsAndPath ==
  [][call'.op = "Convert" =>
       /\ airspaces' = airspaces
       /\ waypoints' = waypoints
       /\ heap' = heap
       /\ airspaceFiles' = airspaceFiles
       /\ waypointFiles' = waypointFiles
       /\ outputFile' = outputFile]_vars

\* a vendor-compiled conversion whose external tool failed, both collections loaded
C3_Witness ==
  /\ call.op = "Convert"
  /\ call.info.type = "Garmin_Format"
  /\ errors = 1
  /\ ~conversionDone
  /\ airspaces # <<>>
  /\ waypoints # <<>>

\* ------------------------------------------------- ConvertOpenAIPdir claims
\* the calls the loop body has made for the country, without what they were given
TraceCalls == [i \in 1..Len(trace) |-> [op |-> trace[i].op, path |-> trace[i].path]]

PipelineCall(op, path) == [op |-> op, path |-> path]

\* the calls of steps (a) to (c) for a country with the given content flags
LoadAndConvertCalls(cc, content) ==
  LET asp == CountryFile(openAIPpath, cc, Str_asp_aip)
      wpt == CountryFile(openAIPpath, cc, Str_wpt_aip)
      nav == CountryFile(openAIPpath, cc, Str_nav_aip)
  IN  (IF content.asp
       THEN << PipelineCall("LoadAirspaces", asp),
               PipelineCall("Convert", ReplaceExtension(asp, Ext_txt)) >>
       ELSE <<>>)
      \o (IF content.wpt
          THEN << PipelineCall("LoadWaypoints", wpt),
                  PipelineCall("Convert", ReplaceExtension(wpt, Ext_cup)) >>
          ELSE <<>>)
      \o (IF content.nav
          THEN (IF content.wpt THEN << PipelineCall("UnloadWaypoints", <<>>) >> ELSE <<>>)
               \o << PipelineCall("LoadWaypoints", nav),
                     PipelineCall("Convert", ReplaceExtension(nav, Ext_cup)) >>
          ELSE <<>>)

\* the load of step (d)
ReloadCall(cc) == PipelineCall("LoadWaypoints", CountryFile(openAIPpath, cc, Str_wpt_aip))

KmzCall(cc) == PipelineCall("Convert", CountryFile(openAIPpath, cc, Str_kmz))

\* the loop body has been run for the country up to its last conversion
CountryDone == pc = "unload"

\* the step (d) load has been made for the country
Reloaded ==
  /\ Len(trace) >= 2
  /\ TraceCalls[Len(trace) - 1] = ReloadCall(CountryCode)
  /\ Len(trace) - 1 > Len(LoadAndConvertCalls(CountryCode, Content))

\* C4: for each indexed country, taken in index order, the loads and conversions
\* are issued in exactly the order asp (load cc_asp.aip, convert to cc_asp.txt),
\* wpt (load cc_wpt.aip, convert to cc_wpt.cup), nav (unload the waypoints if wpt
\* was loaded, load cc_nav.aip, convert to cc_nav.cup, a path other than the
\* airfields output, the waypoint collection holding only entities read from the
\* navaid file), and then exactly one conversion to cc.kmz; a hot flag causes no
\* load and no conversion.  (Whether step (d) loads the airfields again before the
\* last conversion is left open here.)
C4_CountryCallsInOrderNavaidsAlone ==
  CountryDone =>
    LET cc    == CountryCode
        calls == LoadAndConvertCalls(cc, Content)
        nav   == CountryFile(openAIPpath, cc, Str_nav_aip)
        wpt   == CountryFile(openAIPpath, cc, Str_wpt_aip)
    IN  /\ [i \in 1..Len(call.info.processed) |-> call.info.processed[i].cc]
             = SubSeq(SortedKeys(DOMAIN aipFilesIndex), 1, record - 1)
        /\ \/ TraceCalls = calls \o << KmzCall(cc) >>
           \/ TraceCalls = calls \o << ReloadCall(cc), KmzCall(cc) >>
        /\ ReplaceExtension(nav, Ext_cup) # ReplaceExtension(wpt, Ext_cup)
        /\ \A i \in 1..Len(trace) :
             trace[i].op = "Convert" /\ trace[i].path = ReplaceExtension(nav, Ext_cup)
               => \A j \in 1..Len(trace[i].wpts) : trace[i].wpts[j].src = nav

\* C5: step (d) loads the airfields file again only if airfields were loaded in
\* step (b) and then unloaded for step (c); at the conversion to cc.kmz no entity
\* is in the waypoint collection twice.
C5_ReloadOnlyAfterUnloadNoEntityTwice ==
  CountryDone =>
    /\ Reloaded => Content.wpt /\ Content.nav
    /\ LET kmz == trace[Len(trace)].wpts
       IN  \A i, j \in 1..Len(kmz) : kmz[i] = kmz[j] => i = j

\* the files of the countries of the index other than cc
FilesOfOtherCountries(cc) ==
  { CountryFile(openAIPpath, other, suffix) :
      other \in DOMAIN aipFilesIndex \ {cc},
      suffix \in {Str_asp_aip, Str_wpt_aip, Str_nav_aip} }

\* C6: no state leaks between countries: at the start of the processing of every
\* country, and when ConvertOpenAIPdir has returned true, both collections are
\* empty, and no conversion made for a country is given an entity read from a file
\* of another country; whatever the session held at the call and whichever reads
\* or conversions failed.
C6_NoLeakBetweenCountries ==
  /\ pc = "asp" => airspaces = <<>> /\ waypoints = <<>>
  /\ call.op = "ConvertOpenAIPdir" /\ call.ret = "true"
       => airspaces = <<>> /\ waypoints = <<>>
  /\ pc # "idle" =>
       \A i \in 1..Len(trace) :
         trace[i].op = "Convert" =>
           /\ \A j \in 1..Len(trace[i].asps) :
                trace[i].asps[j].src \notin FilesOfOtherCountries(CountryCode)
           /\ \A j \in 1..Len(trace[i].wpts) :
                trace[i].wpts[j].src \notin FilesOfOtherCountries(CountryCode)

\* the second country of a directory is at its last conversion with entities of
\* its own loaded, the first country having been converted with success
C6_Witness ==
  /\ CountryDone
  /\ record = 2
  /\ call.info.processed[1].done
  /\ trace[Len(trace)].wpts # <<>>

\* the countries ConvertOpenAIPdir has processed
ProcessedCountries ==
  [i \in 1..Len(call.info.processed) |-> call.info.processed[i].cc]

EntriesOf(ptr) == { i \in 1..Len(waypoints) : waypoints[i].ptr = ptr }

\* C8: waypoint ownership: in every state reachable by LoadWaypoints,
\* UnloadWaypoints, FilterOnLatLonLimits, Convert and ConvertOpenAIPdir, a Waypoint
\* that is not released is referenced by exactly one entry of the waypoint
\* collection, a released one by none, and nothing is released twice.
C8_WaypointOwnedByOneEntry ==
  /\ ~heapFault
  /\ \A ptr \in 1..MaxObj :
       Cardinality(EntriesOf(ptr)) = IF heap[ptr].alloc THEN 1 ELSE 0

\* the filter has released a Waypoint that was created before one it has kept
C8_Witness ==
  /\ call.op = "FilterOnLatLonLimits"
  /\ call.info.wpts > Len(waypoints)
  /\ \E p, q \in 1..MaxObj : p < q /\ ~heap[p].alloc /\ heap[q].alloc

\* the box is valid and is not the full globe
FiltersOn(limits) == LimitsIsValid(limits) /\ limits # FullGlobe

\* C9: for a valid box other than the full globe FilterOnLatLonLimits returns true,
\* the airspace collection becomes the prior entries that IsWithinLimits reports
\* within the limits and the waypoint collection the prior entries whose position
\* is within the limits, in their order; both loops examine every entry exactly
\* once, in order; the kept Waypoints are as they were; count before = kept +
\* removed for both collections.
C9_FilterKeepsExactlyTheEntriesWithin ==
  [][call'.op = "FilterOnLatLonLimits" /\ FiltersOn(call'.arg) =>
       LET limits == call'.arg
           WithinA(a) == IsWithinLimits(a, limits)
           WithinW(e) == IsPositionWithinLimits(limits, heap[e.ptr].lat, heap[e.ptr].lon)
           removedA == { i \in 1..Len(airspaces) : ~WithinA(airspaces[i]) }
           removedW == { i \in 1..Len(waypoints) : ~WithinW(waypoints[i]) }
       IN  /\ call'.ret = "true"
           /\ airspaces' = SelectSeq(airspaces, WithinA)
           /\ waypoints' = SelectSeq(waypoints, WithinW)
           /\ \A i \in 1..Len(waypoints') :
                heap'[waypoints'[i].ptr] = heap[waypoints'[i].ptr]
           /\ FilterAirspacesLoop(airspaces, limits, 1, <<>>).examined = airspaces
           /\ FilterWaypointsLoop(W, limits, 1, <<>>).examined
                = [i \in 1..Len(waypoints) |-> waypoints[i].ptr]
           /\ Len(airspaces) = Len(airspaces') + Cardinality(removedA)
           /\ Len(waypoints) = Len(waypoints') + Cardinality(removedW)]_vars

\* a filter that has removed some and kept some, of the airspaces and of the waypoints
C9_Witness ==
  /\ call.op = "FilterOnLatLonLimits"
  /\ FiltersOn(call.arg)
  /\ call.info.asps > Len(airspaces) /\ airspaces # <<>>
  /\ call.info.wpts > Len(waypoints) /\ waypoints # <<>>

\* C10: called with the full-globe box FilterOnLatLonLimits returns true, called
\* with an invalid box it returns false, and in both cases both collections are
\* left as they were and no Waypoint is released.
C10_FullGlobeOrInvalidBoxChangesNothing ==
  [][call'.op = "FilterOnLatLonLimits" /\ ~FiltersOn(call'.arg) =>
       /\ call'.ret = Bool(call'.arg = FullGlobe)
       /\ airspaces' = airspaces
       /\ waypoints' = waypoints
       /\ heap' = heap
       /\ heapFault' = heapFault]_vars

\* an invalid box refused, with entries outside it in both collections
C10_Witness ==
  /\ call.op = "FilterOnLatLonLimits"
  /\ ~LimitsIsValid(call.arg)
  /\ call.ret = "false"
  /\ call.info.asps = Len(airspaces) /\ airspaces # <<>>
  /\ call.info.wpts = Len(waypoints) /\ waypoints # <<>>

\* ----------------------------------------------------- output type claims
\* the extensions with an output type of their own
ExtensionTypes ==
  { <<Ext_txt, "OpenAir_Format">>, <<Ext_cup, "SeeYou_Format">>, <<Ext_mp, "Polish_Format">>,
    <<Ext_img, "Garmin_Format">>, <<Ext_kmz, "KMZ_Format">> }

\* the output type of an extension that has one, in any letter case
TypeOfExtension(ext, type) == \E et \in ExtensionTypes : IEquals(ext, et[1]) /\ type = et[2]

Recognized(ext) == \E et \in ExtensionTypes : IEquals(ext, et[1])

C12_ExtensionRoundTrip ==
  call.op = "PutTypeExtension" =>
    /\ call.arg.filename # <<>>
         /\ call.arg.type \in {"OpenAir_Format", "SeeYou_Format", "Polish_Format",
                               "Garmin_Format"}
       => call.ret = "true" /\ DetermineType(call.info.filename) = call.arg.type
    /\ call.arg.filename = <<>> \/ call.arg.type = "Unknown_Format"
       => call.ret = "false" /\ call.info.filename = call.arg.filename

\* a path of another type, in a directory with a dot in its name, rewritten
C12_Witness ==
  /\ call.op = "PutTypeExtension"
  /\ call.arg = [type |-> "Polish_Format", filename |-> <<"d",".","x","/","o",".","K","m","Z">>]
  /\ call.ret = "true"
  /\ call.info.filename = <<"d",".","x","/","o",".","m","p">>

ParsedText == call.arg

ParsedOk == call.ret = "true"

Parsed == call.info

UnitMode(unit) == IF IEqualsAny(unit, {Kw_M, Kw_MT}) THEN "Mt" ELSE "Ft"

\* C13: ParseAltitude resolves the unit from the unit keyword wherever it follows
\* the digit run: next to it or after a space or '=', with no reference keyword
\* or with one before or after the unit.  The parse succeeds with the value of
\* the digit run, in meters for M and MT and in feet for FT and F, in any case
\* of the letters.
C13_UnitFromKeywordWhereverItStands ==
  call.op = "ParseAltitude" =>
    \A run \in DigitRuns, sep \in UnitSeparators, unit \in UnitWords :
      ParsedText \in UnitTexts(run, sep, unit) =>
        /\ ParsedOk
        /\ Parsed.mode = UnitMode(unit)
        /\ Parsed.value = Stod(run)

\* C14: for a text made of "FL", in any case of the letters, and a non-empty digit
\* run right after it, ParseAltitude succeeds and sets a flight level of the
\* value of the run.
C14_FlightLevelOfTheDigitRun ==
  call.op = "ParseAltitude" =>
    \A fl \in FlightLevelMarkers, run \in FlightLevelRuns :
      ParsedText = fl \o run =>
        /\ ParsedOk
        /\ Parsed.mode = "FlightLevel"
        /\ Parsed.value = Stod(run)

\* C15: a digit run is all a text needs: a digit run alone, or followed by a
\* reference keyword and no unit, parses as feet with the value of the run, above
\* mean sea level unless the keyword is a ground reference; a text with no digit run
\* and no keyword that stands for an altitude fails.
C15_DigitRunAloneIsFeetAMSL ==
  call.op = "ParseAltitude" =>
    /\ \A run \in DigitRuns :
         /\ ParsedText = run =>
              /\ ParsedOk
              /\ Parsed = [mode |-> "Ft", value |-> Stod(run), isAMSL |-> TRUE]
         /\ \A ref \in ReferenceWords :
              ParsedText = ReferenceText(run, ref) =>
                /\ ParsedOk
                /\ Parsed = [mode |-> "Ft", value |-> Stod(run),
                             isAMSL |-> ref \notin GroundReferenceWords]
    /\ ParsedText \in NoValueTexts => ~ParsedOk

\* C16: a text with a second digit run that begins before value, reference and
\* unit are all resolved fails, whatever the length of the second run and
\* wherever it stands.
C16_SecondDigitRunFails ==
  call.op = "ParseAltitude" =>
    \A run \in DigitRuns, second \in DigitRuns :
      ParsedText \in TwoRunTexts(run, second) => ~ParsedOk

KeywordAltitude(word) ==
  IF word \in UnlimitedWords THEN [mode |-> "Unlimited", value |-> 0, isAMSL |-> TRUE]
  ELSE [mode |-> "Ft", value |-> 0, isAMSL |-> word \in SeaWords]

\* C17: GND and SFC alone give an altitude above ground, MSL and AMSL alone one
\* above mean sea level, UNLIM, UNLIMITED and UNL alone the unlimited altitude;
\* the scan stops at such a keyword, so the same text with anything after the
\* keyword gives the same result.
C17_KeywordAloneOrFollowedByText ==
  call.op = "ParseAltitude" =>
    \A word \in GroundWords \cup SeaWords \cup UnlimitedWords :
      \A rest \in {<<>>} \cup FollowingTexts :
        ParsedText = word \o rest =>
          /\ ParsedOk
          /\ Parsed = KeywordAltitude(word)

GarminConvert == call.op = "Convert" /\ call.info.type = "Garmin_Format"

PolishFile == ReplaceExtension(call.info.outputFile, Ext_mp)

HookCalled == \E i \in 1..Len(call.info.calls) : call.info.calls[i].op = "cGPSmapper"

WriteThenHook ==
  /\ call.info.calls # <<>>
  /\ call.info.calls[1] = [op |-> "Polish::Write", path |-> PolishFile]
  /\ HookCalled =>
       /\ call.info.writeOk
       /\ call.info.calls =
            << [op |-> "Polish::Write", path |-> PolishFile],
               [op |-> "cGPSmapper", path |-> <<PolishFile, call.info.outputFile>>] >>
  /\ ~HookCalled => call.ret = "false"

LoadReads == call.info.reads

\* airspaces.size() after the i-th pending file
CountAfter(i) == IF i < Len(LoadReads) THEN LoadReads[i + 1].asps ELSE Len(airspaces)

FirstAdding ==
  LET adding == { i \in 1..Len(LoadReads) : CountAfter(i) > call.info.asps }
  IN  LoadReads[CHOOSE i \in adding : \A j \in adding : i <= j].file

InfersOutputFile(types) ==
  call.op = "LoadAirspaces" /\ call.arg \in types =>
    IF call.info.outputFile # <<>> THEN outputFile = call.info.outputFile
    ELSE IF Len(airspaces) > call.info.asps
    THEN outputFile = ReplaceExtension(FirstAdding, TypeExtension(call.arg))
    ELSE outputFile = <<>>

\* C19 as stated: a call of LoadAirspaces with an empty output path that adds at
\* least one airspace returns with the output path of the first pending file, in
\* list order, whose read added an airspace, with its extension replaced by the
\* extension of the preferred output type, whatever that type is; a call with an
\* output path leaves it; a call that adds nothing leaves the empty path empty.
C19_OutputFromFirstAddingFileForEveryType ==
  InfersOutputFile(OutputTypes \ {"Unknown_Format"})

\* C19 as amended: the same, for the preferred output types KMZ, OpenAir, Polish and
\* Garmin.  (SeeYou and Unknown reach assert(false); where assertions are compiled
\* out they give the KMZ extension.)
C19_OutputFromFirstAddingFile ==
  InfersOutputFile({"KMZ_Format", "OpenAir_Format", "Polish_Format", "Garmin_Format"})

\* LoadAirspaces(Polish) on an empty session with two pending files: the first is
\* read and gives nothing, the second gives the output path
C19_Witness ==
  /\ call.op = "LoadAirspaces"
  /\ call.arg = "Polish_Format"
  /\ call.info.outputFile = <<>>
  /\ call.info.asps = 0
  /\ call.info.reads = << [op |-> "Read", file |-> File_a_txt, asps |-> 0],
                          [op |-> "Read", file |-> File_k_kml, asps |-> 0] >>
  /\ airspaces # <<>>
  /\ outputFile = <<"k",".","m","p">>

Treatment(files, exts) ==
  [i \in 1..Len(files) |->
     [op |-> IF Readable(files[i], exts) THEN "Read" ELSE "LogWarning", file |-> files[i]]]

Treated == [i \in 1..Len(LoadReads) |-> [op |-> LoadReads[i].op, file |-> LoadReads[i].file]]

RECURSIVE IsSubsequence(_, _)
IsSubsequence(a, b) ==
  IF a = <<>> THEN TRUE
  ELSE IF b = <<>> THEN FALSE
  ELSE IF Head(a) = Head(b) THEN IsSubsequence(Tail(a), Tail(b))
  ELSE IsSubsequence(a, Tail(b))

KeepsEntities ==
  /\ IsSubsequence(airspaces, airspaces')
  /\ IsSubsequence(waypoints, waypoints')
  /\ \A i \in 1..Len(waypoints) : heap'[waypoints[i].ptr] = heap[waypoints[i].ptr]

\* C20: LoadAirspaces returns with an empty pending airspace-file list and
\* LoadWaypoints with an empty pending waypoint-file list; each pending file, in list
\* order, has been given to its reader, or, its extension being unknown, has got a
\* warning, the files after it being treated all the same; and every entity that was
\* in a collection is still there, as it was.
C20_LoadEmptiesListTreatsEveryFileKeepsEntities ==
  [][/\ call'.op = "LoadAirspaces" =>
          /\ airspaceFiles' = <<>>
          /\ Treated' = Treatment(airspaceFiles, {Ext_txt, Ext_aip, Ext_kmz, Ext_kml})
          /\ KeepsEntities
     /\ call'.op = "LoadWaypoints" =>
          /\ waypointFiles' = <<>>
          /\ Treated' = Treatment(waypointFiles, {Ext_cup, Ext_aip})
          /\ KeepsEntities]_vars

\* LoadWaypoints on a file of unknown extension followed by a file that is read, the
\* collection holding a waypoint of an earlier load
C20_Witness ==
  /\ call.op = "LoadWaypoints"
  /\ Treated = << [op |-> "LogWarning", file |-> File_x_dat],
                  [op |-> "Read", file |-> File_v_cup] >>
  /\ Len(waypoints) = 2
  /\ waypointFiles = <<>>

\* C21 as stated: UnloadWaypoints empties the waypoint collection and clears the
\* output path exactly when the airspace collection is empty, and UnloadAirspaces
\* empties the airspace collection and clears the output path exactly when the
\* waypoint collection is empty; otherwise the output path is left as it was.
C21_EitherUnloadClearsPathOnlyIfBothEmpty ==
  [][/\ call'.op = "UnloadWaypoints" =>
          /\ waypoints' = <<>>
          /\ outputFile' = IF airspaces = <<>> THEN <<>> ELSE outputFile
     /\ call'.op = "UnloadAirspaces" =>
          /\ airspaces' = <<>>
          /\ outputFile' = IF waypoints = <<>> THEN <<>> ELSE outputFile]_vars

\* C21 as amended: UnloadWaypoints empties the waypoint collection and clears the
\* output path exactly when the airspace collection is empty, leaving it as it was
\* otherwise; UnloadAirspaces empties the airspace collection and clears the output
\* path always, also while the waypoint collection holds entities.
C21_UnloadAirspacesAlwaysClearsPath ==
  [][/\ call'.op = "UnloadWaypoints" =>
          /\ waypoints' = <<>>
          /\ outputFile' = IF airspaces = <<>> THEN <<>> ELSE outputFile
     /\ call'.op = "UnloadAirspaces" =>
          /\ airspaces' = <<>>
          /\ outputFile' = <<>>]_vars

\* UnloadAirspaces called after a successful Convert (so with an output path) and
\* with waypoints loaded: the waypoints are still there, the output path is not
C21_Witness ==
  /\ call.op = "UnloadAirspaces"
  /\ call.info.done
  /\ waypoints # <<>>
  /\ outputFile = <<>>

\* what ConvertOpenAIPdir was called on, and the index it built
Listing == call.info.listing
Index   == call.info.index

ContentCodes ==
  [asp |-> <<"a","s","p">>, wpt |-> <<"w","p","t">>, nav |-> <<"n","a","v">>,
   hot |-> <<"h","o","t">>]

\* the files the scan looks at: regular, not empty, with the extension .aip
Scanned == { i \in 1..Len(Listing) :
               /\ Listing[i].regular
               /\ Listing[i].size # 0
               /\ IEquals(Extension(Listing[i].name), Ext_aip) }

\* the file is named <country code>_<content code> for this country and content
NamedFor(i, countryCode, kind) ==
  /\ Len(countryCode) = 2
  /\ Stem(Listing[i].name) = countryCode \o <<"_">> \o ContentCodes[kind]

\* C22: a flag of the index is set only for a file whose stem is a 2-character
\* country code, "_" and one of asp, wpt, nav, hot; every such file sets its flag for
\* its country, and no later file clears it; every country of the index has a flag
\* set; and when no file of the directory is so named the index is empty and
\* ConvertOpenAIPdir returns false without a load or a conversion.
C22_IndexHoldsExactlyTheNamedFiles ==
  call.op = "ConvertOpenAIPdir" /\ IsDirectory(call.arg) =>
    /\ \A countryCode \in DOMAIN Index, kind \in DOMAIN ContentCodes :
         Index[countryCode][kind] => \E i \in Scanned : NamedFor(i, countryCode, kind)
    /\ \A i \in Scanned, kind \in DOMAIN ContentCodes :
         LET countryCode == SubSeq(Listing[i].name, 1, 2)
         IN  NamedFor(i, countryCode, kind) =>
               countryCode \in DOMAIN Index /\ Index[countryCode][kind]
    /\ \A countryCode \in DOMAIN Index :
         \E kind \in DOMAIN ContentCodes : Index[countryCode][kind]
    /\ DOMAIN Index = {} =>
         /\ call.ret = "false"
         /\ pc = "idle"
         /\ trace = <<>>
         /\ call.info.processed = <<>>
         /\ airspaces = <<>> /\ waypoints = <<>> /\ ~conversionDone

\* a directory with two files of one country and one of another: the flags of
\* the first country are merged, and both countries are in the index
C22_Witness ==
  /\ call.op = "ConvertOpenAIPdir"
  /\ Listing = Pick(GoodEntries, {2, 3, 5}, 1)
  /\ DOMAIN Index = { <<"a","a">>, <<"b","b">> }
  /\ Index[<<"a","a">>] = [NoContent EXCEPT !.wpt = TRUE, !.nav = TRUE]
  /\ Index[<<"b","b">>] = [NoContent EXCEPT !.nav = TRUE]

\* the output paths of the Convert calls made so far for the country the loop is at
ConvertPaths == { trace[i].path : i \in { k \in 1..Len(trace) : trace[k].op = "Convert" } }

\* C23: every Convert that ConvertOpenAIPdir makes is called with an outputFile that
\* is not empty and whose extension is that of a known output type, whatever the
\* directory holds, whatever kinds of content the country has and whatever the reads
\* and the conversions before it returned.
C23_PipelineConvertsToKnownType ==
  pc # "idle" =>
    \A path \in ConvertPaths : path # <<>> /\ DetermineType(path) # "Unknown_Format"

\* a country with hotspots only: its one Convert is that of the KMZ file
C23_Witness ==
  /\ pc = "unload"
  /\ Content = [NoContent EXCEPT !.hot = TRUE]
  /\ ConvertPaths = { CountryFile(openAIPpath, CountryCode, Str_kmz) }
  /\ DetermineType(outputFile) = "KMZ_Format"

====
